---- MODULE Spec2Model ----
(***************************************************************************)
(* Model of app.py: the Streamlit vehicle-analytics page.                  *)
(*                                                                         *)
(* One browser session.  The page script main() is re-run from the top on  *)
(* every widget interaction; st.session_state (system, ivcam_connected,    *)
(* detection_active, cap) survives the re-runs, the locals of main() do    *)
(* not.  A re-run requested while the script is still running is served    *)
(* when the script next reaches a Streamlit call or a session_state        *)
(* access; inside requests.post nothing of the kind is reached.            *)
(*                                                                         *)
(* Time is counted in ticks of 100 ms, the length of the loop's            *)
(* time.sleep(0.1).  Confidences are counted in hundredths.                *)
(***************************************************************************)
EXTENDS Integers, Sequences, FiniteSets, TLC

VARIABLES
    ivcam_connected,      \* st.session_state.ivcam_connected
    detection_active,     \* st.session_state.detection_active
    cap,                  \* st.session_state.cap: a handle id, or None
    vehicles_data,        \* system.vehicles_data
    other_objects_data,   \* system.other_objects_data
    refresh_rate,         \* the "Detection Frequency" slider, in seconds
    handles,              \* every cv2.VideoCapture: "unused", "open", "released"
    releases,             \* calls of release() made on each handle
    stored,               \* the handles that were ever stored in session_state.cap
    lastConnect,          \* what the last connect_ivcam call opened and returned
    pc,                   \* where the script is: "idle", "loop", "sending", "sleep"
    pending,              \* the widget interaction waiting for a script run
    clickTime,            \* the clock when that interaction was made
    now,                  \* time.time(), in ticks
    last_detection_time,  \* local of main()
    frame,                \* local of main(): what capture_frame returned last
    result,               \* local of main(): what send_to_databricks returned last
    submitted,            \* frames this loop has sent to the service
    dropped,              \* a read failed in this loop
    op,                   \* the operation that made the last step
    horizon               \* ticks a run of the loop is followed for

vars == <<ivcam_connected, detection_active, cap, vehicles_data,
          other_objects_data, refresh_rate, handles, releases, stored,
          lastConnect, pc, pending, clickTime, now, last_detection_time,
          frame, result, submitted, dropped, op, horizon>>

-----------------------------------------------------------------------------
(* Bounds of the model *)

MaxHandles == 2      \* VideoCapture objects created in one session
MaxStore   == 3      \* length of each detection list
ShortTicks == 2      \* ticks one run of the loop is followed for, in Spec
MaxTicks   == 31     \* the same, in SpecLive
MaxLatency == 30     \* longest wait for the service that is explored, in ticks

(* Constants of the program *)

SliderMin      == 1     \* st.slider(..., 1, 10, 3)
SliderMax      == 10
SliderDefault  == 3
TicksPerSecond == 10    \* time.sleep(0.1) is one tick
SleepTicks     == 1
PostTimeout    == 30    \* requests.post(..., timeout=30), in seconds
Epoch          == 1000  \* time.time() when a script run starts: far above
                        \* every slider value; nothing read from the clock
                        \* outlives a run, so each run counts from here

None == 0               \* Python's None where a handle id is expected

-----------------------------------------------------------------------------
(* Values *)

HandleIds == 1..MaxHandles

\* What the environment lets cv2.VideoCapture(...), isOpened() and read() do
\* inside connect_ivcam.
ConnectOutcomes == {"open_raises", "not_opened", "read_raises", "no_frame", "ok"}

\* Detections as the service returns them (the display fields are left out).
Sedan == [vehicle_type |-> "sedan", confidence |-> 92]
Truck == [vehicle_type |-> "truck", confidence |-> 65]
Ghost == [vehicle_type |-> "ghost", confidence |-> 150]
Tree  == [object_type |-> "tree", confidence |-> 80]
Glare == [object_type |-> "glare", confidence |-> -5]

\* The detections of one answer: its vehicles and its other objects.
Payloads ==
    {[vehicles |-> <<>>, other_objects |-> <<>>],
     [vehicles |-> <<Sedan, Truck>>, other_objects |-> <<Tree, Glare>>],
     [vehicles |-> <<Ghost>>, other_objects |-> <<>>]}

\* Python's None where a dict is expected, and the frame values.
NoneResult == [is_none |-> TRUE]
NoFrame    == "None"
AFrame     == "frame"

\* The JSON bodies explored: dicts are functions on their keys.
GoodBodies == {[success |-> TRUE, detections |-> d] : d \in Payloads}

MalformedBodies ==
    {[success |-> TRUE],
     [success |-> TRUE, detections |-> [vehicles |-> <<Sedan, Truck>>]],
     [success |-> TRUE, detections |-> [other_objects |-> <<Tree>>]]}

\* <<>> is the empty dict.
RefusedBodies ==
    {<<>>,
     [success |-> FALSE],
     [detections |-> [vehicles |-> <<Sedan, Truck>>, other_objects |-> <<Tree>>]]}

\* What requests.post can do: raise (transport error, timeout), or answer with a
\* status code and a body that is JSON or not.
Responses ==
    {[raises |-> TRUE, status_code |-> 0, is_json |-> FALSE, body |-> NoneResult],
     [raises |-> FALSE, status_code |-> 500, is_json |-> TRUE, body |-> [success |-> FALSE]],
     [raises |-> FALSE, status_code |-> 200, is_json |-> FALSE, body |-> NoneResult]}
    \cup {[raises |-> FALSE, status_code |-> 200, is_json |-> TRUE, body |-> b] :
            b \in GoodBodies \cup MalformedBodies \cup RefusedBodies}

\* How long requests.post takes, in ticks: at most its timeout.
Latencies == {l \in {0, 2, MaxLatency} : l <= PostTimeout * TicksPerSecond}

RefreshRates == {r \in {SliderMin, SliderDefault} : r <= SliderMax}

Clicks == {"connect", "test", "start", "stop", "clear", "slider", "upload"}

-----------------------------------------------------------------------------
(* Python helpers *)

\* d.get(k) of a flag: None, which is falsy, when the key is missing.
Get(d, k) == IF k \in DOMAIN d THEN d[k] ELSE FALSE

\* bool(d) of a dict or None.
Truthy(d) == d # NoneResult /\ DOMAIN d # {}

-----------------------------------------------------------------------------
(* VehicleAnalyticsSystem *)

\* The VideoCapture object a call of cv2.VideoCapture(...) creates next.
NextHandle == CHOOSE h \in HandleIds :
                 /\ handles[h] = "unused"
                 /\ \A g \in HandleIds : g < h => handles[g] # "unused"

\* connect_ivcam under outcome o: what it returns (success, cap), the handle it
\* opened, and the handles and release counts it leaves.  Both branches of the
\* isdigit() test open a VideoCapture the same way.
connect_ivcam(o) ==
    LET h == NextHandle IN
    CASE o = "ok" ->
            [success |-> TRUE, cap |-> h, opened |-> h,
             handles |-> [handles EXCEPT ![h] = "open"], releases |-> releases]
      [] o = "no_frame" ->
            [success |-> FALSE, cap |-> None, opened |-> h,
             handles |-> [handles EXCEPT ![h] = "released"],
             releases |-> [releases EXCEPT ![h] = @ + 1]]
      [] o = "read_raises" ->
            [success |-> FALSE, cap |-> None, opened |-> h,
             handles |-> [handles EXCEPT ![h] = "open"], releases |-> releases]
      [] o \in {"not_opened", "open_raises"} ->
            [success |-> FALSE, cap |-> None, opened |-> None,
             handles |-> handles, releases |-> releases]

\* capture_frame(cap), where ret is what cap.read() reports.
capture_frame(c, ret) ==
    IF c # None /\ handles[c] = "open"
    THEN (IF ret THEN AFrame ELSE NoFrame)
    ELSE NoFrame

\* send_to_databricks, given what requests.post does: the parsed body on a 200
\* whose body is JSON, None on any other status and on any exception.
send_to_databricks(resp) ==
    IF resp.raises THEN NoneResult
    ELSE IF resp.status_code = 200
         THEN (IF resp.is_json THEN resp.body ELSE NoneResult)
         ELSE NoneResult

-----------------------------------------------------------------------------
(* main(): folding a result into the session's lists *)

\* A slip: the vehicles are stored before 'other_objects' is looked up.
ApplyResult_ExtendBeforeLookup(res, vs, os) ==
    IF Truthy(res) /\ Get(res, "success")
    THEN IF "detections" \notin DOMAIN res
         THEN [vehicles |-> vs, objects |-> os, raised |-> TRUE]
         ELSE IF "vehicles" \notin DOMAIN res.detections
         THEN [vehicles |-> vs, objects |-> os, raised |-> TRUE]
         ELSE IF "other_objects" \notin DOMAIN res.detections
         THEN [vehicles |-> vs \o res.detections.vehicles, objects |-> os,
               raised |-> TRUE]
         ELSE [vehicles |-> vs \o res.detections.vehicles,
               objects  |-> os \o res.detections.other_objects,
               raised   |-> FALSE]
    ELSE [vehicles |-> vs, objects |-> os, raised |-> FALSE]

\* A slip: the lists are assigned the new detections instead of extended.
ApplyResult_Assign(res, vs, os) ==
    IF Truthy(res) /\ Get(res, "success")
    THEN IF "detections" \notin DOMAIN res
         THEN [vehicles |-> vs, objects |-> os, raised |-> TRUE]
         ELSE IF "vehicles" \notin DOMAIN res.detections
         THEN [vehicles |-> vs, objects |-> os, raised |-> TRUE]
         ELSE IF "other_objects" \notin DOMAIN res.detections
         THEN [vehicles |-> vs, objects |-> os, raised |-> TRUE]
         ELSE [vehicles |-> res.detections.vehicles,
               objects  |-> res.detections.other_objects,
               raised   |-> FALSE]
    ELSE [vehicles |-> vs, objects |-> os, raised |-> FALSE]

\* A slip: the new detections are put in front of the lists.
ApplyResult_Prepend(res, vs, os) ==
    IF Truthy(res) /\ Get(res, "success")
    THEN IF "detections" \notin DOMAIN res
         THEN [vehicles |-> vs, objects |-> os, raised |-> TRUE]
         ELSE IF "vehicles" \notin DOMAIN res.detections
         THEN [vehicles |-> vs, objects |-> os, raised |-> TRUE]
         ELSE IF "other_objects" \notin DOMAIN res.detections
         THEN [vehicles |-> vs, objects |-> os, raised |-> TRUE]
         ELSE [vehicles |-> res.detections.vehicles \o vs,
               objects  |-> res.detections.other_objects \o os,
               raised   |-> FALSE]
    ELSE [vehicles |-> vs, objects |-> os, raised |-> FALSE]

\* if result and result.get('success'): look up both lists, then extend both.
\* A missing key raises KeyError at the lookup, before either extend.
ApplyResult(res, vs, os) ==
    IF Truthy(res) /\ Get(res, "success")
    THEN IF "detections" \notin DOMAIN res
         THEN [vehicles |-> vs, objects |-> os, raised |-> TRUE]
         ELSE IF "vehicles" \notin DOMAIN res.detections
         THEN [vehicles |-> vs, objects |-> os, raised |-> TRUE]
         ELSE IF "other_objects" \notin DOMAIN res.detections
         THEN [vehicles |-> vs, objects |-> os, raised |-> TRUE]
         ELSE [vehicles |-> vs \o res.detections.vehicles,
               objects  |-> os \o res.detections.other_objects,
               raised   |-> FALSE]
    ELSE [vehicles |-> vs, objects |-> os, raised |-> FALSE]

\* The lists stay within the model's bound under this response.
Fits(resp) ==
    LET a == ApplyResult(send_to_databricks(resp), vehicles_data, other_objects_data)
    IN  Len(a.vehicles) <= MaxStore /\ Len(a.objects) <= MaxStore

\* Session Stats: the counts the sidebar shows.
VehiclesDetected(vs) == Len(vs)
OtherObjects(os) == Len(os)

-----------------------------------------------------------------------------
(* The session *)

\* No call of connect_ivcam yet.
NoConnect == [called |-> FALSE, success |-> FALSE, cap |-> None, opened |-> None]

Init ==
    /\ ivcam_connected = FALSE
    /\ detection_active = FALSE
    /\ cap = None
    /\ vehicles_data = <<>>
    /\ other_objects_data = <<>>
    /\ refresh_rate = SliderDefault
    /\ handles = [h \in HandleIds |-> "unused"]
    /\ releases = [h \in HandleIds |-> 0]
    /\ stored = {}
    /\ lastConnect = NoConnect
    /\ pc = "idle"
    /\ pending = "none"
    /\ clickTime = Epoch
    /\ now = Epoch
    /\ last_detection_time = 0
    /\ frame = NoFrame
    /\ result = NoneResult
    /\ submitted = 0
    /\ dropped = FALSE
    /\ op = "init"
    /\ horizon = ShortTicks

\* The widget is on the page the last script run drew.
Visible(c) ==
    CASE c = "slider" -> ivcam_connected
      [] c = "upload" -> pc = "idle" /\ ~(ivcam_connected /\ detection_active)
      [] c \in {"connect", "test"} -> \E h \in HandleIds : handles[h] = "unused"
      [] OTHER -> TRUE

\* The user works a widget; the script run that handles it is requested.
Click(c) ==
    /\ pending = "none"
    /\ Visible(c)
    /\ pending' = c
    /\ clickTime' = now
    /\ op' = "click"
    /\ UNCHANGED <<ivcam_connected, detection_active, cap, vehicles_data,
                   other_objects_data, refresh_rate, handles, releases, stored,
                   lastConnect, pc, now, last_detection_time, frame, result,
                   submitted, dropped, horizon>>

\* The script can be re-run for the pending interaction: it is not running, or
\* it is at a Streamlit call or a session_state access of the loop.
Runnable(c) == pending = c /\ pc \in {"idle", "loop", "sleep"}

\* A script run starts: fresh locals, the interaction consumed.
StartRun ==
    /\ pending' = "none"
    /\ clickTime' = Epoch
    /\ now' = Epoch
    /\ last_detection_time' = 0
    /\ submitted' = 0
    /\ dropped' = FALSE
    /\ frame' = NoFrame

\* The script reaches the Live Camera tab with these flags: it enters the live
\* detection loop, or draws the rest of the page and ends.
EnterTab1(connected, active) ==
    pc' = IF connected /\ active THEN "loop" ELSE "idle"

ConnectCamera ==
    /\ Runnable("connect")
    /\ \E o \in ConnectOutcomes :
         LET r == connect_ivcam(o) IN
         /\ handles' = r.handles
         /\ releases' = r.releases
         /\ lastConnect' = [called |-> TRUE, success |-> r.success,
                            cap |-> r.cap, opened |-> r.opened]
         /\ IF r.success
            THEN /\ ivcam_connected' = TRUE
                 /\ cap' = r.cap
                 /\ stored' = stored \cup {r.cap}
            ELSE UNCHANGED <<ivcam_connected, cap, stored>>
    /\ StartRun
    /\ EnterTab1(ivcam_connected', detection_active)
    /\ result' = NoneResult
    /\ op' = "connect"
    /\ UNCHANGED <<detection_active, vehicles_data, other_objects_data, refresh_rate, horizon>>

TestCamera ==
    /\ Runnable("test")
    /\ \E o \in ConnectOutcomes :
         LET r == connect_ivcam(o) IN
         /\ lastConnect' = [called |-> TRUE, success |-> r.success,
                            cap |-> r.cap, opened |-> r.opened]
         /\ IF r.success
            THEN /\ handles' = [r.handles EXCEPT ![r.cap] = "released"]
                 /\ releases' = [r.releases EXCEPT ![r.cap] = @ + 1]
            ELSE /\ handles' = r.handles
                 /\ releases' = r.releases
    /\ StartRun
    /\ EnterTab1(ivcam_connected, detection_active)
    /\ result' = NoneResult
    /\ op' = "test"
    /\ UNCHANGED <<ivcam_connected, detection_active, cap, stored, vehicles_data,
                   other_objects_data, refresh_rate, horizon>>

StartDetection ==
    /\ Runnable("start")
    /\ detection_active' = TRUE
    /\ StartRun
    /\ UNCHANGED lastConnect
    /\ EnterTab1(ivcam_connected, TRUE)
    /\ result' = NoneResult
    /\ op' = "start"
    /\ UNCHANGED <<ivcam_connected, cap, vehicles_data, other_objects_data,
                   refresh_rate, handles, releases, stored, horizon>>

StopDetection ==
    /\ Runnable("stop")
    /\ detection_active' = FALSE
    /\ StartRun
    /\ UNCHANGED lastConnect
    /\ EnterTab1(ivcam_connected, FALSE)
    /\ result' = NoneResult
    /\ op' = "stop"
    /\ UNCHANGED <<ivcam_connected, cap, vehicles_data, other_objects_data,
                   refresh_rate, handles, releases, stored, horizon>>

ClearSessionData ==
    /\ Runnable("clear")
    /\ vehicles_data' = <<>>
    /\ other_objects_data' = <<>>
    /\ StartRun
    /\ UNCHANGED lastConnect
    /\ EnterTab1(ivcam_connected, detection_active)
    /\ result' = NoneResult
    /\ op' = "clear"
    /\ UNCHANGED <<ivcam_connected, detection_active, cap, refresh_rate, handles,
                   releases, stored, horizon>>

\* The Detection Frequency slider is moved.
SetRefreshRate ==
    /\ Runnable("slider")
    /\ \E r \in RefreshRates \ {refresh_rate} : refresh_rate' = r
    /\ StartRun
    /\ UNCHANGED lastConnect
    /\ EnterTab1(ivcam_connected, detection_active)
    /\ result' = NoneResult
    /\ op' = "slider"
    /\ UNCHANGED <<ivcam_connected, detection_active, cap, vehicles_data,
                   other_objects_data, handles, releases, stored, horizon>>

\* "Detect Objects in Image" on the Image Upload tab, which the script reaches
\* only when it does not stay in the live loop.
DetectImage ==
    /\ Runnable("upload")
    /\ \E resp \in Responses :
         /\ Fits(resp)
         /\ result' = send_to_databricks(resp)
         /\ LET a == ApplyResult(result', vehicles_data, other_objects_data) IN
              /\ vehicles_data' = a.vehicles
              /\ other_objects_data' = a.objects
    /\ StartRun
    /\ UNCHANGED lastConnect
    /\ EnterTab1(ivcam_connected, detection_active)
    /\ op' = "upload"
    /\ UNCHANGED <<ivcam_connected, detection_active, cap, refresh_rate, handles,
                   releases, stored, horizon>>

-----------------------------------------------------------------------------
(* The live detection loop *)

\* The throttle test of the loop, in ticks.
Due(t, last, rate) == t - last > rate * TicksPerSecond

\* One pass from the while test to the call of send_to_databricks or to the
\* sleep: read a frame, show it, and decide whether it is sent.
LoopIter ==
    /\ pc = "loop"
    /\ pending = "none"
    /\ IF detection_active /\ ivcam_connected
       THEN \E ret \in BOOLEAN :
              LET f == capture_frame(cap, ret) IN
              /\ frame' = f
              /\ dropped' = (dropped \/ f = NoFrame)
              /\ IF f # NoFrame /\ Due(now, last_detection_time, refresh_rate)
                 THEN /\ last_detection_time' = now
                      /\ submitted' = submitted + 1
                      /\ pc' = "sending"
                 ELSE /\ pc' = "sleep"
                      /\ UNCHANGED <<last_detection_time, submitted>>
       ELSE /\ pc' = "idle"
            /\ UNCHANGED <<frame, dropped, last_detection_time, submitted>>
    /\ op' = "loop"
    /\ UNCHANGED <<ivcam_connected, detection_active, cap, vehicles_data,
                   other_objects_data, refresh_rate, handles, releases, stored,
                   lastConnect, pending, clickTime, now, result, horizon>>

\* requests.post comes back after lat ticks and the result is folded in.  An
\* exception that leaves main() ends the script run, and the locals with it.
SendReturn ==
    /\ pc = "sending"
    /\ \E resp \in Responses, lat \in Latencies :
         /\ now + lat <= Epoch + horizon
         /\ Fits(resp)
         /\ now' = now + lat
         /\ result' = send_to_databricks(resp)
         /\ LET a == ApplyResult(result', vehicles_data, other_objects_data) IN
              /\ vehicles_data' = a.vehicles
              /\ other_objects_data' = a.objects
              /\ IF a.raised
                 THEN /\ pc' = "idle"
                      /\ last_detection_time' = 0
                      /\ submitted' = 0
                      /\ dropped' = FALSE
                      /\ frame' = NoFrame
                 ELSE /\ pc' = "sleep"
                      /\ UNCHANGED <<last_detection_time, submitted, dropped, frame>>
    /\ op' = "send_return"
    /\ UNCHANGED <<ivcam_connected, detection_active, cap, refresh_rate, handles,
                   releases, stored, lastConnect, pending, clickTime, horizon>>

\* time.sleep(0.1), then back to the while test.  frame and result are not
\* read again before the next pass assigns them.
Sleep ==
    /\ pc = "sleep"
    /\ now + SleepTicks <= Epoch + horizon
    /\ now' = now + SleepTicks
    /\ pc' = "loop"
    /\ frame' = NoFrame
    /\ result' = NoneResult
    /\ op' = "sleep"
    /\ UNCHANGED <<ivcam_connected, detection_active, cap, vehicles_data,
                   other_objects_data, refresh_rate, handles, releases, stored,
                   lastConnect, pending, clickTime, last_detection_time,
                   submitted, dropped, horizon>>

-----------------------------------------------------------------------------

Next ==
    \/ \E c \in Clicks : Click(c)
    \/ ConnectCamera
    \/ TestCamera
    \/ StartDetection
    \/ StopDetection
    \/ ClearSessionData
    \/ SetRefreshRate
    \/ DetectImage
    \/ LoopIter
    \/ SendReturn
    \/ Sleep

Spec == Init /\ [][Next]_vars

-----------------------------------------------------------------------------
(* The live loop on its own, followed for longer: the session after Connect  *)
(* Camera succeeded, the slider was set and Start Detection was handled, and *)
(* with no further interaction.                                              *)

InitLive ==
    /\ ivcam_connected = TRUE
    /\ detection_active = TRUE
    /\ cap = 1
    /\ vehicles_data = <<>>
    /\ other_objects_data = <<>>
    /\ refresh_rate \in RefreshRates
    /\ handles = [h \in HandleIds |-> IF h = 1 THEN "open" ELSE "unused"]
    /\ releases = [h \in HandleIds |-> 0]
    /\ stored = {1}
    /\ lastConnect = [called |-> TRUE, success |-> TRUE, cap |-> 1, opened |-> 1]
    /\ pc = "loop"
    /\ pending = "none"
    /\ clickTime = Epoch
    /\ now = Epoch
    /\ last_detection_time = 0
    /\ frame = NoFrame
    /\ result = NoneResult
    /\ submitted = 0
    /\ dropped = FALSE
    /\ op = "start"
    /\ horizon = MaxTicks

NextLive ==
    \/ LoopIter
    \/ SendReturn
    \/ Sleep

SpecLive == InitLive /\ [][NextLive]_vars

-----------------------------------------------------------------------------
(* Properties *)

\* The service reported a failure (no usable answer, or success not set), or the
\* answer lacks 'detections', 'vehicles' or 'other_objects'.
FailedResult(r) ==
    \/ r = NoneResult
    \/ ~Get(r, "success")
    \/ "detections" \notin DOMAIN r
    \/ "vehicles" \notin DOMAIN r.detections
    \/ "other_objects" \notin DOMAIN r.detections

IsPrefix(s, t) == Len(s) <= Len(t) /\ SubSeq(t, 1, Len(s)) = s

\* A confidence in [0,1], in hundredths.
InRange(d) == 0 <= d.confidence /\ d.confidence <= 100

\* C1: while a submission to the service is outstanding, the loop can still read
\* and display a further frame.
C1_DisplayNeverWaits == pc = "sending" => ENABLED LoopIter

\* C2: every handle that was stored in the session is released once it is
\* replaced or detection is stopped, and none is released twice.
C2_ReleasedExactlyOnce ==
    \A h \in stored :
        /\ releases[h] <= 1
        /\ h # cap => handles[h] = "released"
        /\ op = "stop" => handles[h] = "released"

\* C3: a failed read in the live loop ends the loop, clears detection_active
\* and releases the handle.
C3_ReadFailureEndsLoop ==
    [][(LoopIter /\ frame' = NoFrame) =>
          /\ pc' = "idle"
          /\ ~detection_active'
          /\ handles'[cap] = "released"]_vars

\* C4: a connect_ivcam call that fails returns no handle and leaves no handle it
\* opened still open.
C4_FailedConnectLeavesNoHandle ==
    (lastConnect.called /\ ~lastConnect.success) =>
        /\ lastConnect.cap = None
        /\ lastConnect.opened # None => handles[lastConnect.opened] = "released"

\* C5: with a steady source, after running for D the loop has forwarded
\* floor(D/T) frames, give or take one.
C5_ThrottleCount ==
    (pc # "idle" /\ ~dropped) =>
        LET T == refresh_rate * TicksPerSecond
            n == (now - Epoch) \div T
        IN  n - 1 <= submitted /\ submitted <= n + 1

\* C6: a failed or malformed answer of the service leaves both detection lists
\* as they were, on the live path and on the upload path.
C6_FailedResultStoresNothing ==
    [][((SendReturn \/ DetectImage) /\ FailedResult(result')) =>
          UNCHANGED <<vehicles_data, other_objects_data>>]_vars

C6_Witness ==
    /\ op = "send_return"
    /\ vehicles_data # <<>>
    /\ result = [success |-> TRUE, detections |-> [vehicles |-> <<Sedan, Truck>>]]

\* C7: every stored detection has a confidence in [0,1].
C7_ConfidenceInRange ==
    /\ \A i \in 1..Len(vehicles_data) : InRange(vehicles_data[i])
    /\ \A i \in 1..Len(other_objects_data) : InRange(other_objects_data[i])

\* C8: a Stop Detection request made while the loop runs is honoured within one
\* poll of 100 ms.
C8_StopHonouredWithinPoll ==
    (pending = "stop" /\ pc # "idle") => now - clickTime <= SleepTicks

\* C9: whatever way a submission fails, the loop goes on to the next pass with
\* detection still active.
C9_FailureKeepsLoopRunning ==
    [][(SendReturn /\ FailedResult(result')) =>
          pc' = "sleep" /\ detection_active']_vars

\* C10: a step either keeps both detection lists as prefixes of their new
\* contents, or is Clear Session Data, which empties both.
C10_AppendOnly ==
    [][/\ ClearSessionData =>
            vehicles_data' = <<>> /\ other_objects_data' = <<>>
       /\ ~ClearSessionData =>
            /\ IsPrefix(vehicles_data, vehicles_data')
            /\ IsPrefix(other_objects_data, other_objects_data')]_vars

C10_Witness ==
    /\ op = "send_return"
    /\ vehicles_data = <<Ghost, Sedan, Truck>>
    /\ other_objects_data = <<Tree, Glare>>

\* C11: a successful result with k vehicles and m other objects puts exactly
\* those, in the order of the payload, at the end of the two lists, so the
\* vehicle count rises by k and the object count by m.
C11_AppendsPayloadInOrder ==
    [][((SendReturn \/ DetectImage) /\ ~FailedResult(result')) =>
          LET v == result'.detections.vehicles
              o == result'.detections.other_objects
          IN  /\ vehicles_data' = vehicles_data \o v
              /\ other_objects_data' = other_objects_data \o o
              /\ VehiclesDetected(vehicles_data') =
                    VehiclesDetected(vehicles_data) + Len(v)
              /\ OtherObjects(other_objects_data') =
                    OtherObjects(other_objects_data) + Len(o)]_vars

C11_Witness ==
    /\ op = "send_return"
    /\ result = [success |-> TRUE,
                 detections |-> [vehicles |-> <<Sedan, Truck>>,
                                 other_objects |-> <<Tree, Glare>>]]
    /\ vehicles_data = <<Ghost, Sedan, Truck>>
    /\ VehiclesDetected(vehicles_data) = 3

\* C12: Test Camera leaves ivcam_connected, cap, detection_active and both
\* detection lists as they were, and every handle it opened is released when
\* it ends, whether the test succeeds or fails.
C12_TestCameraChangesNothing ==
    [][TestCamera =>
          /\ UNCHANGED <<ivcam_connected, cap, detection_active,
                         vehicles_data, other_objects_data>>
          /\ \A h \in HandleIds :
                (handles[h] = "unused" /\ handles'[h] # "unused") =>
                    handles'[h] = "released"]_vars

====
